---- MODULE Spec2Model ----
(***************************************************************************)
(* io_uring_scanner: the slot pool (src/src/ring.rs), the admission gate   *)
(* (src/src/scan.rs), the TCP-connect capability                            *)
(* (src/src/scan/tcp_connect.rs) and the drive loop (src/src/main.rs).      *)
(*                                                                         *)
(* Two specifications share the state:                                     *)
(*   Spec      the scanner's drive loop together with the kernel side of   *)
(*             the ring (FairSpec adds the scheduling fairness);           *)
(*   PoolSpec  the RingAllocator alone, driven by arbitrary calls of       *)
(*             alloc_entry and free_entry.                                 *)
(***************************************************************************)
EXTENDS Integers, Sequences, FiniteSets, TLC

\* ------------------------------------------------------------------ bounds
MaxRingSize == 3     \* --ring-size is drawn from 1..MaxRingSize
MaxIps == 2          \* the IP sequence has 0..MaxIps hosts
MaxBatch == 2        \* --ring-batch-size is drawn from 1..MaxBatch
MaxPoolSize == 3     \* PoolSpec: RingAllocator::new(ring_size) with 1..MaxPoolSize
MaxInfoIp == 2       \* PoolSpec: addresses stored in an EntryInfo
MaxBufPoolSize == 2  \* BufSpec: RingAllocator::new(ring_size) with 1..MaxBufPoolSize
MaxScanFds == 1      \* ScanSpec: sockets open at a time
MaxLoadIps == 4      \* LoadSpec: hosts of the IP sequence

\* ------------------------------------------------- options and their None
NoneIdx == -1                       \* Option<EntryIdx> / Option<usize>: None
NoEntry == [some |-> FALSE]         \* Option<EntryInfo>: None
NoBuf == [some |-> FALSE]           \* Option<BufferInfo>: None

\* EntryStep as u8 (tcp_connect.rs)
StepConnect == 0
StepConnectTimeout == 1
StepClose == 2

AllOps == {"Connect", "LinkTimeout", "Close"}

Min(a, b) == IF a <= b THEN a ELSE b

Range(s) == {s[i] : i \in DOMAIN s}

\* Some(EntryInfo { ip, step, buf, fd })
EntryInfo(ip, step, buf, fd) ==
    [some |-> TRUE, ip |-> ip, step |-> step, buf |-> buf, fd |-> fd]

\* Some(BufferInfo { idx, direction })
BufferInfo(idx, direction) == [some |-> TRUE, idx |-> idx, direction |-> direction]

\* ------------------------------------------------------------ RingAllocator
\* RingAllocator::new: `buffers` is kept as its length, tx_buf_size as NoneIdx
\* for None.  The TX free list is built whether or not TX buffers exist.
RingAllocatorNew(size, tx_buf_size) ==
    [ buffers         |-> size + (IF tx_buf_size # NoneIdx THEN size ELSE 0),
      tx_buf_size     |-> tx_buf_size,
      entries         |-> [i \in 0..(size - 1) |-> NoEntry],
      free_entry_idx  |-> [i \in 1..size |-> i - 1],
      free_rx_buf_idx |-> [i \in 1..size |-> i - 1],
      free_tx_buf_idx |-> [i \in 1..size |-> size + i - 1] ]

\* entries.capacity()
Capacity(a) == Cardinality(DOMAIN a.entries)

\* get_entry: Option<&EntryInfo>; indexing out of bounds panics
get_entry(a, idx) ==
    IF idx \in DOMAIN a.entries
    THEN [panic |-> FALSE, entry |-> a.entries[idx]]
    ELSE [panic |-> TRUE, entry |-> NoEntry]

has_free_entry_count(a, count) == Len(a.free_entry_idx) >= count

allocated_entry_count(a) == Capacity(a) - Len(a.free_entry_idx)

\* Variant of free_buf: the direction is not looked at.
free_buf_always_rx(a, direction, idx) ==
    [a EXCEPT !.free_rx_buf_idx = Append(@, idx)]

\* free_buf: push the index on the free list of its direction
free_buf(a, direction, idx) ==
    IF direction = "RX"
    THEN [a EXCEPT !.free_rx_buf_idx = Append(@, idx)]
    ELSE [a EXCEPT !.free_tx_buf_idx = Append(@, idx)]

\* Variant of free_entry: the slot's entry is left in place.
free_entry_keeps_entry(a, idx) ==
    IF idx \notin DOMAIN a.entries \/ ~a.entries[idx].some
    THEN [panic |-> TRUE, allocator |-> a]
    ELSE [panic |-> FALSE,
          allocator |-> [a EXCEPT !.free_entry_idx = Append(@, idx)]]

\* Variant of free_entry: the index is put at the front of the free list
\* (insert(0, idx)).
free_entry_push_front(a, idx) ==
    IF idx \notin DOMAIN a.entries \/ ~a.entries[idx].some
    THEN [panic |-> TRUE, allocator |-> a]
    ELSE LET buf == a.entries[idx].buf
             b == IF buf.some THEN free_buf(a, buf.direction, buf.idx) ELSE a
         IN [ panic |-> FALSE,
              allocator |-> [b EXCEPT !.free_entry_idx = <<idx>> \o @,
                                      !.entries[idx] = NoEntry] ]

\* Variant of free_entry: an empty slot is skipped over (if let Some(..))
\* instead of unwrapped, and its index is pushed all the same.
free_entry_silent(a, idx) ==
    IF idx \notin DOMAIN a.entries
    THEN [panic |-> TRUE, allocator |-> a]
    ELSE LET buf == IF a.entries[idx].some THEN a.entries[idx].buf ELSE NoBuf
             b == IF buf.some THEN free_buf(a, buf.direction, buf.idx) ELSE a
         IN [ panic |-> FALSE,
              allocator |-> [b EXCEPT !.free_entry_idx = Append(@, idx),
                                      !.entries[idx] = NoEntry] ]

\* free_entry: entries[idx].as_ref().unwrap() panics on an index out of
\* bounds and on an unallocated slot, before anything is changed.
free_entry(a, idx) ==
    IF idx \notin DOMAIN a.entries \/ ~a.entries[idx].some
    THEN [panic |-> TRUE, allocator |-> a]
    ELSE LET buf == a.entries[idx].buf
             b == IF buf.some THEN free_buf(a, buf.direction, buf.idx) ELSE a
         IN [ panic |-> FALSE,
              allocator |-> [b EXCEPT !.free_entry_idx = Append(@, idx),
                                      !.entries[idx] = NoEntry] ]

\* Variant of alloc_entry: the index is read with last() and stays listed.
alloc_entry_peek(a, info) ==
    IF a.free_entry_idx = <<>>
    THEN [allocator |-> a, idx |-> NoneIdx, occupied |-> FALSE]
    ELSE LET idx == a.free_entry_idx[Len(a.free_entry_idx)]
         IN [ allocator |-> [a EXCEPT !.entries[idx] = info],
              idx |-> idx,
              occupied |-> FALSE ]

\* Variant of alloc_entry: the last free index is never handed out.
alloc_entry_off_by_one(a, info) ==
    IF Len(a.free_entry_idx) <= 1
    THEN [allocator |-> a, idx |-> NoneIdx, occupied |-> FALSE]
    ELSE LET n == Len(a.free_entry_idx)
             idx == a.free_entry_idx[n]
         IN [ allocator |-> [a EXCEPT !.free_entry_idx = SubSeq(@, 1, n - 1),
                                      !.entries[idx] = info],
              idx |-> idx,
              occupied |-> a.entries[idx].some ]

\* Variant of alloc_entry: the index is taken from the front (remove(0)).
alloc_entry_fifo(a, info) ==
    IF a.free_entry_idx = <<>>
    THEN [allocator |-> a, idx |-> NoneIdx, occupied |-> FALSE]
    ELSE LET idx == Head(a.free_entry_idx)
         IN [ allocator |-> [a EXCEPT !.free_entry_idx = Tail(@),
                                      !.entries[idx] = info],
              idx |-> idx,
              occupied |-> a.entries[idx].some ]

\* Variant of alloc_entry: the info is stored at the free list's new length
\* instead of at the popped index.
alloc_entry_stale_index(a, info) ==
    IF a.free_entry_idx = <<>>
    THEN [allocator |-> a, idx |-> NoneIdx, occupied |-> FALSE]
    ELSE LET n == Len(a.free_entry_idx)
             idx == a.free_entry_idx[n]
         IN [ allocator |-> [a EXCEPT !.free_entry_idx = SubSeq(@, 1, n - 1),
                                      !.entries[n - 1] = info],
              idx |-> idx,
              occupied |-> a.entries[n - 1].some ]

\* alloc_entry: Vec::pop takes the last element.  `occupied` is the case the
\* debug_assert! guards (the popped slot still holds an entry).
alloc_entry(a, info) ==
    IF a.free_entry_idx = <<>>
    THEN [allocator |-> a, idx |-> NoneIdx, occupied |-> FALSE]
    ELSE LET n == Len(a.free_entry_idx)
             idx == a.free_entry_idx[n]
         IN [ allocator |-> [a EXCEPT !.free_entry_idx = SubSeq(@, 1, n - 1),
                                      !.entries[idx] = info],
              idx |-> idx,
              occupied |-> a.entries[idx].some ]

\* Variant of alloc_buf: an empty free list is answered with buffer 0
\* (pop().unwrap_or(0)) instead of a panic.
alloc_buf_silent(a, direction) ==
    LET list == IF direction = "RX" THEN a.free_rx_buf_idx ELSE a.free_tx_buf_idx
        n == Len(list)
        popped == IF direction = "RX"
                  THEN [a EXCEPT !.free_rx_buf_idx = SubSeq(@, 1, n - 1)]
                  ELSE [a EXCEPT !.free_tx_buf_idx = SubSeq(@, 1, n - 1)]
    IN  IF list = <<>>
        THEN [panic |-> FALSE, allocator |-> a, idx |-> 0]
        ELSE IF list[n] >= a.buffers
        THEN [panic |-> TRUE, allocator |-> popped, idx |-> NoneIdx]
        ELSE IF direction = "TX" /\ a.tx_buf_size = NoneIdx
        THEN [panic |-> TRUE, allocator |-> popped, idx |-> NoneIdx]
        ELSE [panic |-> FALSE, allocator |-> popped, idx |-> list[n]]

\* alloc_buf: pop().expect("No free buffers") on the direction's free list,
\* then self.buffers[idx] (a panic when idx is past the buffers held) and, for
\* TX, tx_buf_size.expect(..).  The index stays popped when a later step
\* panics.  The bytes of init_val are not modelled.
alloc_buf(a, direction) ==
    LET list == IF direction = "RX" THEN a.free_rx_buf_idx ELSE a.free_tx_buf_idx
        n == Len(list)
        popped == IF direction = "RX"
                  THEN [a EXCEPT !.free_rx_buf_idx = SubSeq(@, 1, n - 1)]
                  ELSE [a EXCEPT !.free_tx_buf_idx = SubSeq(@, 1, n - 1)]
    IN  IF list = <<>>
        THEN [panic |-> TRUE, allocator |-> a, idx |-> NoneIdx]
        ELSE IF list[n] >= a.buffers
        THEN [panic |-> TRUE, allocator |-> popped, idx |-> NoneIdx]
        ELSE IF direction = "TX" /\ a.tx_buf_size = NoneIdx
        THEN [panic |-> TRUE, allocator |-> popped, idx |-> NoneIdx]
        ELSE [panic |-> FALSE, allocator |-> popped, idx |-> list[n]]

\* -------------------------------------------------------------- the ring
\* IoUring::new(entries): the kernel rounds the submission queue up to a
\* power of two.
RECURSIVE RoundUpPow2From(_, _)
RoundUpPow2From(p, n) == IF p >= n THEN p ELSE RoundUpPow2From(2 * p, n)

IoUringNew(entries) == RoundUpPow2From(1, entries)

\* A submission entry: the opcode, the IO_LINK flag, the user_data tag and
\* the fd; `chain` is the ordinal of the push_scan_ops call that built it.
Sqe(opcode, link, user_data, fd, chain) ==
    [opcode |-> opcode, link |-> link, user_data |-> user_data, fd |-> fd,
     chain |-> chain]

\* A completion entry
Cqe(user_data, result) == [user_data |-> user_data, result |-> result]

\* ------------------------------------------------------------ ScanTcpConnect
\* check_op_supported: logs and returns the probe's answer
check_op_supported(p, opcode) == opcode \in p

check_supported(p) ==
    /\ check_op_supported(p, "Connect")
    /\ check_op_supported(p, "LinkTimeout")
    /\ check_op_supported(p, "Close")

\* max_tx_size: None
max_tx_size == NoneIdx

ops_per_ip == 3

\* can_push
\* Variant of can_push: the submission queue's room is not looked at.
can_push_slots_only(sq, sq_capacity, a) == has_free_entry_count(a, ops_per_ip)

can_push(sq, sq_capacity, a) ==
    /\ has_free_entry_count(a, ops_per_ip)
    /\ sq_capacity - Len(sq) >= ops_per_ip

\* Variant of push_scan_ops: the link timeout gets no slot of its own and is
\* tagged with the Connect's slot.
push_scan_ops_timeout_shares_slot(sckt, addr, sq, sq_capacity, a, chain) ==
    LET r1 == alloc_entry(a, EntryInfo(addr, StepConnect, NoBuf, sckt))
        r3 == alloc_entry(r1.allocator, EntryInfo(addr, StepClose, NoBuf, sckt))
        ops == << Sqe("Connect", TRUE, r1.idx, sckt, chain),
                  Sqe("LinkTimeout", TRUE, r1.idx, sckt, chain),
                  Sqe("Close", FALSE, r3.idx, sckt, chain) >>
    IN  IF r1.idx = NoneIdx \/ r3.idx = NoneIdx \/ sq_capacity - Len(sq) < Len(ops)
        THEN [panic |-> TRUE, occupied |-> FALSE, allocator |-> r3.allocator, squeue |-> sq, ret |-> 0]
        ELSE [panic |-> FALSE, occupied |-> FALSE,
              allocator |-> r3.allocator, squeue |-> sq \o ops, ret |-> Len(ops)]

\* Variant of push_scan_ops: the Close entry carries IO_LINK as well.
push_scan_ops_close_linked(sckt, addr, sq, sq_capacity, a, chain) ==
    LET r1 == alloc_entry(a, EntryInfo(addr, StepConnect, NoBuf, sckt))
        r2 == alloc_entry(r1.allocator, EntryInfo(addr, StepConnectTimeout, NoBuf, sckt))
        r3 == alloc_entry(r2.allocator, EntryInfo(addr, StepClose, NoBuf, sckt))
        ops == << Sqe("Connect", TRUE, r1.idx, sckt, chain),
                  Sqe("LinkTimeout", TRUE, r2.idx, sckt, chain),
                  Sqe("Close", TRUE, r3.idx, sckt, chain) >>
    IN  IF r1.idx = NoneIdx \/ r2.idx = NoneIdx \/ r3.idx = NoneIdx
           \/ sq_capacity - Len(sq) < Len(ops)
        THEN [panic |-> TRUE, occupied |-> FALSE, allocator |-> r3.allocator, squeue |-> sq, ret |-> 0]
        ELSE [panic |-> FALSE, occupied |-> FALSE,
              allocator |-> r3.allocator, squeue |-> sq \o ops, ret |-> Len(ops)]

\* Variant of push_scan_ops: the Close entry carries the Connect slot's id.
push_scan_ops_close_tag(sckt, addr, sq, sq_capacity, a, chain) ==
    LET r1 == alloc_entry(a, EntryInfo(addr, StepConnect, NoBuf, sckt))
        r2 == alloc_entry(r1.allocator, EntryInfo(addr, StepConnectTimeout, NoBuf, sckt))
        r3 == alloc_entry(r2.allocator, EntryInfo(addr, StepClose, NoBuf, sckt))
        ops == << Sqe("Connect", TRUE, r1.idx, sckt, chain),
                  Sqe("LinkTimeout", TRUE, r2.idx, sckt, chain),
                  Sqe("Close", FALSE, r1.idx, sckt, chain) >>
    IN  IF r1.idx = NoneIdx \/ r2.idx = NoneIdx \/ r3.idx = NoneIdx
           \/ sq_capacity - Len(sq) < Len(ops)
        THEN [panic |-> TRUE, occupied |-> FALSE, allocator |-> r3.allocator, squeue |-> sq, ret |-> 0]
        ELSE [panic |-> FALSE, occupied |-> FALSE,
              allocator |-> r3.allocator, squeue |-> sq \o ops, ret |-> Len(ops)]

\* push_scan_ops: three alloc_entry(...).unwrap(), then push_multiple(&ops)
\* .expect(...).  `panic` is an unwrap/expect that failed; the allocator is
\* returned as the calls made so far left it.
push_scan_ops(sckt, addr, sq, sq_capacity, a, chain) ==
    LET r1 == alloc_entry(a, EntryInfo(addr, StepConnect, NoBuf, sckt))
        r2 == alloc_entry(r1.allocator, EntryInfo(addr, StepConnectTimeout, NoBuf, sckt))
        r3 == alloc_entry(r2.allocator, EntryInfo(addr, StepClose, NoBuf, sckt))
        ops == << Sqe("Connect", TRUE, r1.idx, sckt, chain),
                  Sqe("LinkTimeout", TRUE, r2.idx, sckt, chain),
                  Sqe("Close", FALSE, r3.idx, sckt, chain) >>
    IN  IF r1.idx = NoneIdx
        THEN [panic |-> TRUE, occupied |-> FALSE, allocator |-> r1.allocator, squeue |-> sq, ret |-> 0]
        ELSE IF r2.idx = NoneIdx
        THEN [panic |-> TRUE, occupied |-> r1.occupied, allocator |-> r2.allocator, squeue |-> sq, ret |-> 0]
        ELSE IF r3.idx = NoneIdx
        THEN [panic |-> TRUE, occupied |-> r1.occupied \/ r2.occupied,
              allocator |-> r3.allocator, squeue |-> sq, ret |-> 0]
        ELSE IF sq_capacity - Len(sq) < Len(ops)
        THEN [panic |-> TRUE, occupied |-> r1.occupied \/ r2.occupied \/ r3.occupied,
              allocator |-> r3.allocator, squeue |-> sq, ret |-> 0]
        ELSE [panic |-> FALSE, occupied |-> r1.occupied \/ r2.occupied \/ r3.occupied,
              allocator |-> r3.allocator, squeue |-> sq \o ops, ret |-> Len(ops)]

\* Variant of process_completed_entry: the address of every Connect
\* completion is inserted in the set, whatever the result.
process_completed_entry_insert_always(ce, entry_info, hits, fds) ==
    IF entry_info.step = StepConnect
    THEN LET hit == ce.result = "OK" /\ entry_info.ip \notin hits
         IN [ panic |-> FALSE, ret |-> FALSE, logged |-> hit,
              set |-> hits \cup {entry_info.ip},
              open_fds |-> fds ]
    ELSE IF entry_info.step = StepConnectTimeout
    THEN [panic |-> FALSE, ret |-> FALSE, logged |-> FALSE, set |-> hits, open_fds |-> fds]
    ELSE IF entry_info.step = StepClose
    THEN IF ce.result = "ECANCELED"
         THEN [ panic |-> entry_info.fd \notin fds, ret |-> TRUE, logged |-> FALSE,
                set |-> hits, open_fds |-> fds \ {entry_info.fd} ]
         ELSE [panic |-> FALSE, ret |-> TRUE, logged |-> FALSE, set |-> hits, open_fds |-> fds]
    ELSE [panic |-> TRUE, ret |-> FALSE, logged |-> FALSE, set |-> hits, open_fds |-> fds]

\* Variant of process_completed_entry: a Connect that did not succeed aborts.
process_completed_entry_abort_on_error(ce, entry_info, hits, fds) ==
    IF entry_info.step = StepConnect
    THEN LET hit == ce.result = "OK" /\ entry_info.ip \notin hits
         IN [ panic |-> ce.result # "OK", ret |-> FALSE, logged |-> hit,
              set |-> IF hit THEN hits \cup {entry_info.ip} ELSE hits,
              open_fds |-> fds ]
    ELSE IF entry_info.step = StepConnectTimeout
    THEN [panic |-> FALSE, ret |-> FALSE, logged |-> FALSE, set |-> hits, open_fds |-> fds]
    ELSE IF entry_info.step = StepClose
    THEN IF ce.result = "ECANCELED"
         THEN [ panic |-> entry_info.fd \notin fds, ret |-> TRUE, logged |-> FALSE,
                set |-> hits, open_fds |-> fds \ {entry_info.fd} ]
         ELSE [panic |-> FALSE, ret |-> TRUE, logged |-> FALSE, set |-> hits, open_fds |-> fds]
    ELSE [panic |-> TRUE, ret |-> FALSE, logged |-> FALSE, set |-> hits, open_fds |-> fds]

\* Variant of process_completed_entry: the ConnectTimeout arm returns true.
process_completed_entry_timeout_true(ce, entry_info, hits, fds) ==
    IF entry_info.step = StepConnect
    THEN LET hit == ce.result = "OK" /\ entry_info.ip \notin hits
         IN [ panic |-> FALSE, ret |-> FALSE, logged |-> hit,
              set |-> IF hit THEN hits \cup {entry_info.ip} ELSE hits,
              open_fds |-> fds ]
    ELSE IF entry_info.step = StepConnectTimeout
    THEN [panic |-> FALSE, ret |-> TRUE, logged |-> FALSE, set |-> hits, open_fds |-> fds]
    ELSE IF entry_info.step = StepClose
    THEN IF ce.result = "ECANCELED"
         THEN [ panic |-> entry_info.fd \notin fds, ret |-> TRUE, logged |-> FALSE,
                set |-> hits, open_fds |-> fds \ {entry_info.fd} ]
         ELSE [panic |-> FALSE, ret |-> TRUE, logged |-> FALSE, set |-> hits, open_fds |-> fds]
    ELSE [panic |-> TRUE, ret |-> FALSE, logged |-> FALSE, set |-> hits, open_fds |-> fds]

\* Variant of process_completed_entry: the hit set is not consulted.
process_completed_entry_no_dedup(ce, entry_info, hits, fds) ==
    IF entry_info.step = StepConnect
    THEN LET hit == ce.result = "OK"
         IN [ panic |-> FALSE, ret |-> FALSE, logged |-> hit,
              set |-> IF hit THEN hits \cup {entry_info.ip} ELSE hits,
              open_fds |-> fds ]
    ELSE IF entry_info.step = StepConnectTimeout
    THEN [panic |-> FALSE, ret |-> FALSE, logged |-> FALSE, set |-> hits, open_fds |-> fds]
    ELSE IF entry_info.step = StepClose
    THEN IF ce.result = "ECANCELED"
         THEN [ panic |-> entry_info.fd \notin fds, ret |-> TRUE, logged |-> FALSE,
                set |-> hits, open_fds |-> fds \ {entry_info.fd} ]
         ELSE [panic |-> FALSE, ret |-> TRUE, logged |-> FALSE, set |-> hits, open_fds |-> fds]
    ELSE [panic |-> TRUE, ret |-> FALSE, logged |-> FALSE, set |-> hits, open_fds |-> fds]

\* process_completed_entry: the effect on the hit set, the hit log and the
\* open descriptors, and the returned flag.  unistd::close(fd).unwrap()
\* panics when the descriptor is not open; EntryStep::from panics on a step
\* it does not know.
process_completed_entry(ce, entry_info, hits, fds) ==
    IF entry_info.step = StepConnect
    THEN LET hit == ce.result = "OK" /\ entry_info.ip \notin hits
         IN [ panic |-> FALSE, ret |-> FALSE, logged |-> hit,
              set |-> IF hit THEN hits \cup {entry_info.ip} ELSE hits,
              open_fds |-> fds ]
    ELSE IF entry_info.step = StepConnectTimeout
    THEN [panic |-> FALSE, ret |-> FALSE, logged |-> FALSE, set |-> hits, open_fds |-> fds]
    ELSE IF entry_info.step = StepClose
    THEN IF ce.result = "ECANCELED"
         THEN [ panic |-> entry_info.fd \notin fds, ret |-> TRUE, logged |-> FALSE,
                set |-> hits, open_fds |-> fds \ {entry_info.fd} ]
         ELSE [panic |-> FALSE, ret |-> TRUE, logged |-> FALSE, set |-> hits, open_fds |-> fds]
    ELSE [panic |-> TRUE, ret |-> FALSE, logged |-> FALSE, set |-> hits, open_fds |-> fds]

\* socket(): the lowest descriptor not open; 0..2 are the standard streams
\* and 3 is the ring.
FirstFd == 4

socket(fds) == CHOOSE fd \in FirstFd..(FirstFd + Cardinality(fds)) :
                  /\ fd \notin fds
                  /\ \A g \in FirstFd..(fd - 1) : g \in fds

\* -------------------------------------------------------------------- state
VARIABLES
    ring_size,        \* cl_opts.ring_size
    ring_batch_size,  \* cl_opts.ring_batch_size
    total_ip_count,   \* hosts of the merged ranges; the addresses are 1..total_ip_count
    probe,            \* the opcodes the kernel's probe reports
    pc,               \* where main is: start, fill, submit, wait, exit, or the panic that ended it
    done,
    ip_iter,          \* addresses ip_iter.next() has yielded so far
    ring_allocator,
    squeue,           \* entries pushed and not yet submitted
    inflight,         \* entries the kernel holds and has not completed
    cqueue,           \* completions posted and not yet drained
    chain_state,      \* per chain, what the kernel made of its connect
    wait_for,         \* the argument of submit_and_wait
    set,              \* ScanTcpConnect.set
    log,              \* per address, the hit lines logged for it
    progress,         \* the progress bar's position
    open_fds,         \* the sockets open in the process
    pushed,           \* per address, the calls of push_scan_ops made for it
    last_call         \* PoolSpec: the last RingAllocator call and its result

vars == << ring_size, ring_batch_size, total_ip_count, probe, pc, done, ip_iter,
           ring_allocator, squeue, inflight, cqueue, chain_state, wait_for,
           set, log, progress, open_fds, pushed, last_call >>

scan_vars == << set, log, progress, open_fds >>
param_vars == << ring_size, ring_batch_size, total_ip_count, probe >>
kernel_vars == << inflight, cqueue, chain_state >>

NoCall == [op |-> "none"]

\* The probes tried: every opcode present, or one of the three missing.
Probes == {AllOps} \cup {AllOps \ {o} : o \in AllOps}

\* main.rs up to the probe: the options are parsed and the ring is created.
Init ==
    /\ ring_size \in 1..MaxRingSize
    /\ ring_batch_size \in 1..MaxBatch
    /\ total_ip_count \in 0..MaxIps
    /\ probe \in Probes
    /\ pc = "start"
    /\ done = FALSE
    /\ ip_iter = 0
    /\ ring_allocator = RingAllocatorNew(0, NoneIdx)
    /\ squeue = <<>>
    /\ inflight = {}
    /\ cqueue = <<>>
    /\ chain_state = <<>>
    /\ wait_for = 0
    /\ set = {}
    /\ log = [ip \in 1..total_ip_count |-> 0]
    /\ progress = 0
    /\ open_fds = {}
    /\ pushed = [ip \in 1..total_ip_count |-> 0]
    /\ last_call = NoCall

\* iorings.submission().capacity()
SqCapacity == IoUringNew(ring_size)

\* main.rs 54-66: the probe is registered, check_supported is called and its
\* answer dropped, and the allocator is built.
Startup ==
    /\ pc = "start"
    /\ LET supported == check_supported(probe)
       IN pc' = "fill"
    /\ ring_allocator' = RingAllocatorNew(ring_size * ops_per_ip, max_tx_size)
    /\ UNCHANGED << param_vars, done, ip_iter, squeue, kernel_vars, wait_for,
                    scan_vars, pushed, last_call >>

\* main.rs 119-138: can_push holds and ip_iter.next() yields an address: a
\* socket is created and its chain pushed.
FillPush ==
    /\ pc = "fill"
    /\ can_push(squeue, SqCapacity, ring_allocator)
    /\ ip_iter < total_ip_count
    /\ LET ip_addr == ip_iter + 1
           sckt == socket(open_fds)
           chain == Len(chain_state) + 1
           r == push_scan_ops(sckt, ip_addr, squeue, SqCapacity, ring_allocator, chain)
       IN /\ ip_iter' = ip_addr
          /\ open_fds' = open_fds \cup {sckt}
          /\ ring_allocator' = r.allocator
          /\ squeue' = r.squeue
          /\ pushed' = [pushed EXCEPT ![ip_addr] = @ + 1]
          /\ chain_state' = Append(chain_state, "pending")
          /\ \E debug_assertions \in (IF r.occupied /\ ~r.panic THEN BOOLEAN ELSE {FALSE}) :
                pc' = IF r.panic THEN "panic_push"
                      ELSE IF debug_assertions THEN "panic_assert" ELSE "fill"
    /\ UNCHANGED << param_vars, done, inflight, cqueue, wait_for,
                    set, log, progress, last_call >>

\* Variant of FillDone: the allocated count is not looked at.
FillDone_IgnoresAllocated ==
    /\ pc = "fill"
    /\ can_push(squeue, SqCapacity, ring_allocator)
    /\ ip_iter = total_ip_count
    /\ done' = TRUE
    /\ pc' = "submit"
    /\ UNCHANGED << param_vars, ip_iter, ring_allocator, squeue, kernel_vars,
                    wait_for, scan_vars, pushed, last_call >>

\* main.rs 141-143: the sequence is exhausted and no slot is allocated
FillDone ==
    /\ pc = "fill"
    /\ can_push(squeue, SqCapacity, ring_allocator)
    /\ ip_iter = total_ip_count
    /\ allocated_entry_count(ring_allocator) = 0
    /\ done' = TRUE
    /\ pc' = "submit"
    /\ UNCHANGED << param_vars, ip_iter, ring_allocator, squeue, kernel_vars,
                    wait_for, scan_vars, pushed, last_call >>

\* main.rs 144-146: exhausted, slots still allocated
FillBreak ==
    /\ pc = "fill"
    /\ can_push(squeue, SqCapacity, ring_allocator)
    /\ ip_iter = total_ip_count
    /\ allocated_entry_count(ring_allocator) # 0
    /\ pc' = "submit"
    /\ UNCHANGED << param_vars, done, ip_iter, ring_allocator, squeue, kernel_vars,
                    wait_for, scan_vars, pushed, last_call >>

\* Variant of FillFull: the address is pulled before can_push is looked at,
\* and is lost when the push is refused.
FillFull_PullsIp ==
    /\ pc = "fill"
    /\ ~can_push(squeue, SqCapacity, ring_allocator)
    /\ pc' = "submit"
    /\ ip_iter' = IF ip_iter < total_ip_count THEN ip_iter + 1 ELSE ip_iter
    /\ UNCHANGED << param_vars, done, ring_allocator, squeue, kernel_vars,
                    wait_for, scan_vars, pushed, last_call >>

\* main.rs 119: can_push fails, the inner loop is left
FillFull ==
    /\ pc = "fill"
    /\ ~can_push(squeue, SqCapacity, ring_allocator)
    /\ pc' = "submit"
    /\ UNCHANGED << param_vars, done, ip_iter, ring_allocator, squeue, kernel_vars,
                    wait_for, scan_vars, pushed, last_call >>

\* Variant of SubmitAndWait: the wait target is the batch size, whatever is
\* allocated.
SubmitAndWait_WaitsForBatch ==
    /\ pc = "submit"
    /\ pc' = "wait"
    /\ wait_for' = ring_batch_size
    /\ inflight' = inflight \cup Range(squeue)
    /\ squeue' = <<>>
    /\ UNCHANGED << param_vars, done, ip_iter, ring_allocator, cqueue, chain_state,
                    scan_vars, pushed, last_call >>

\* main.rs 150-158: completed_count is read, the wait target computed and the
\* pushed entries handed to the kernel.  The usize subtraction panics in a
\* build with overflow checks and wraps otherwise.
SubmitAndWait ==
    /\ pc = "submit"
    /\ LET completed_count == Len(cqueue)
           diff == allocated_entry_count(ring_allocator) - completed_count
       IN \E overflow_checks \in (IF diff < 0 THEN BOOLEAN ELSE {FALSE}) :
            /\ pc' = IF overflow_checks THEN "panic_overflow" ELSE "wait"
            /\ wait_for' = IF diff < 0 THEN ring_batch_size ELSE Min(ring_batch_size, diff)
            /\ inflight' = IF overflow_checks THEN inflight ELSE inflight \cup Range(squeue)
            /\ squeue' = IF overflow_checks THEN squeue ELSE <<>>
    /\ UNCHANGED << param_vars, done, ip_iter, ring_allocator, cqueue, chain_state,
                    scan_vars, pushed, last_call >>

\* main.rs 164-173, one turn of the for loop on the driver's state st:
\* get_entry(..).unwrap(), the dispatcher, progress.inc on true, free_entry.
\* A panic (an unwrap of None in get_entry, in the dispatcher or in
\* free_entry) leaves the state as it was when it was raised.
DrainEntry(st, ce) ==
    LET g == get_entry(st.allocator, ce.user_data)
    IN IF g.panic \/ ~g.entry.some
       THEN [st EXCEPT !.panic = "panic_get_entry"]
       ELSE LET r == process_completed_entry(ce, g.entry, st.set, st.open_fds)
                f == free_entry(st.allocator, ce.user_data)
            IN IF r.panic
               THEN [st EXCEPT !.panic = "panic_dispatch"]
               ELSE [ panic |-> IF f.panic THEN "panic_free_entry" ELSE "none",
                      allocator |-> f.allocator,
                      set |-> r.set,
                      log |-> IF r.logged THEN [st.log EXCEPT ![g.entry.ip] = @ + 1] ELSE st.log,
                      open_fds |-> r.open_fds,
                      progress |-> IF r.ret THEN st.progress + 1 ELSE st.progress ]

\* for ce in iorings.completion() { .. }: the completions in order, up to a panic
RECURSIVE DrainLoop(_, _)
DrainLoop(st, cq) ==
    IF cq = <<>> \/ st.panic # "none"
    THEN st
    ELSE CHOOSE out \in {DrainLoop(next, Tail(cq)) : next \in {DrainEntry(st, Head(cq))}} : TRUE

\* main.rs 158-175: submit_and_wait returns once wait_for completions are
\* ready; iorings.completion() holds the completions posted by then and the
\* for loop consumes them all; then `while !done`.
Drain ==
    /\ pc = "wait"
    /\ Len(cqueue) >= wait_for
    /\ LET st == DrainLoop([ panic |-> "none", allocator |-> ring_allocator, set |-> set,
                             log |-> log, open_fds |-> open_fds, progress |-> progress ],
                           cqueue)
       IN /\ ring_allocator' = st.allocator
          /\ set' = st.set
          /\ log' = st.log
          /\ open_fds' = st.open_fds
          /\ progress' = st.progress
          /\ cqueue' = <<>>
          /\ pc' = IF st.panic # "none" THEN st.panic ELSE IF done THEN "exit" ELSE "fill"
    /\ UNCHANGED << param_vars, done, ip_iter, squeue, inflight, chain_state,
                    wait_for, pushed, last_call >>

\* ------------------------------------------------------------- the kernel
\* One completion is posted for every submitted entry.  A chain is
\* Connect -> LinkTimeout -> Close: the connect succeeds, fails or is
\* cancelled by its link timeout; the timeout is cancelled when the connect
\* ends first; the Close runs when the connect succeeded and is cancelled
\* with the rest of the chain otherwise.  A chain holding an opcode the
\* kernel lacks fails as a whole: that entry with EINVAL, the others
\* cancelled.
Post(e, result) ==
    /\ inflight' = inflight \ {e}
    /\ cqueue' = Append(cqueue, Cqe(e.user_data, result))

KernelConnect ==
    /\ \E e \in inflight :
        /\ e.opcode = "Connect"
        /\ IF probe # AllOps
           THEN /\ Post(e, IF "Connect" \in probe THEN "ECANCELED" ELSE "EINVAL")
                /\ chain_state' = [chain_state EXCEPT ![e.chain] = "einval"]
           ELSE IF chain_state[e.chain] = "timeout"
           THEN /\ Post(e, "ECANCELED")
                /\ UNCHANGED chain_state
           ELSE \E r \in {"OK", "ECONNREFUSED"} :
                /\ Post(e, r)
                /\ chain_state' = [chain_state EXCEPT
                                     ![e.chain] = IF r = "OK" THEN "ok" ELSE "refused"]
    /\ UNCHANGED << param_vars, pc, done, ip_iter, ring_allocator, squeue, wait_for,
                    scan_vars, pushed, last_call >>

KernelLinkTimeout ==
    /\ \E e \in inflight :
        /\ e.opcode = "LinkTimeout"
        /\ IF probe # AllOps
           THEN /\ chain_state[e.chain] = "einval"
                /\ Post(e, IF "LinkTimeout" \in probe THEN "ECANCELED" ELSE "EINVAL")
                /\ UNCHANGED chain_state
           ELSE IF chain_state[e.chain] = "pending"
           THEN /\ Post(e, "ETIME")
                /\ chain_state' = [chain_state EXCEPT ![e.chain] = "timeout"]
           ELSE /\ Post(e, "ECANCELED")
                /\ UNCHANGED chain_state
    /\ UNCHANGED << param_vars, pc, done, ip_iter, ring_allocator, squeue, wait_for,
                    scan_vars, pushed, last_call >>

KernelClose ==
    /\ \E e \in inflight :
        /\ e.opcode = "Close"
        /\ \A o \in inflight : o.chain = e.chain => o = e
        /\ LET st == chain_state[e.chain]
           IN /\ Post(e, IF st = "ok" THEN "OK"
                         ELSE IF st = "einval" /\ "Close" \notin probe THEN "EINVAL"
                         ELSE "ECANCELED")
              /\ open_fds' = IF st = "ok" THEN open_fds \ {e.fd} ELSE open_fds
              /\ chain_state' = [chain_state EXCEPT ![e.chain] = "closed"]
    /\ UNCHANGED << param_vars, pc, done, ip_iter, ring_allocator, squeue,
                    wait_for, set, log, progress, pushed, last_call >>

Driver ==
    \/ Startup
    \/ FillPush
    \/ FillDone
    \/ FillBreak
    \/ FillFull
    \/ SubmitAndWait
    \/ Drain

Kernel ==
    \/ KernelConnect
    \/ KernelLinkTimeout
    \/ KernelClose

Next == Driver \/ Kernel

Spec == Init /\ [][Next]_vars

\* The driver is a running thread and the kernel completes what it was given.
FairSpec == Spec /\ WF_vars(Driver) /\ WF_vars(Kernel)

\* ------------------------------------------- the scanner with hosts to spare
\* The drive loop and the kernel as in Spec, started with more hosts than
\* ring_size on a kernel that has every opcode.
LoadInit ==
    /\ ring_size = MaxRingSize
    /\ ring_batch_size = MaxBatch
    /\ total_ip_count = MaxLoadIps
    /\ probe = AllOps
    /\ pc = "start"
    /\ done = FALSE
    /\ ip_iter = 0
    /\ ring_allocator = RingAllocatorNew(0, NoneIdx)
    /\ squeue = <<>>
    /\ inflight = {}
    /\ cqueue = <<>>
    /\ chain_state = <<>>
    /\ wait_for = 0
    /\ set = {}
    /\ log = [ip \in 1..total_ip_count |-> 0]
    /\ progress = 0
    /\ open_fds = {}
    /\ pushed = [ip \in 1..total_ip_count |-> 0]
    /\ last_call = NoCall

LoadSpec == LoadInit /\ [][Next]_vars

\* ------------------------------------------------------ the allocator alone
PoolInit ==
    /\ ring_size \in 1..MaxPoolSize
    /\ ring_batch_size = 1
    /\ total_ip_count = 0
    /\ probe = AllOps
    /\ pc = "pool"
    /\ done = FALSE
    /\ ip_iter = 0
    /\ ring_allocator = RingAllocatorNew(ring_size, max_tx_size)
    /\ squeue = <<>>
    /\ inflight = {}
    /\ cqueue = <<>>
    /\ chain_state = <<>>
    /\ wait_for = 0
    /\ set = {}
    /\ log = <<>>
    /\ progress = 0
    /\ open_fds = {}
    /\ pushed = <<>>
    /\ last_call = NoCall

pool_frame == << param_vars, done, ip_iter, squeue, kernel_vars, wait_for,
                 scan_vars, pushed >>

\* alloc_entry(info) on any pool, full or not
PoolAllocEntry ==
    /\ pc = "pool"
    /\ \E ip \in 1..MaxInfoIp :
        LET info == EntryInfo(ip, StepConnect, NoBuf, FirstFd)
            r == alloc_entry(ring_allocator, info)
        IN /\ ring_allocator' = r.allocator
           /\ last_call' = [op |-> "alloc_entry", info |-> info, ret |-> r.idx,
                            before |-> ring_allocator]
           /\ \E debug_assertions \in (IF r.occupied THEN BOOLEAN ELSE {FALSE}) :
                pc' = IF debug_assertions THEN "panic_assert" ELSE "pool"
    /\ UNCHANGED pool_frame

\* free_entry(idx) of any index, allocated or not, in bounds or one past
PoolFreeEntry ==
    /\ pc = "pool"
    /\ \E idx \in 0..Capacity(ring_allocator) :
        LET r == free_entry(ring_allocator, idx)
        IN /\ ring_allocator' = r.allocator
           /\ pc' = IF r.panic THEN "panic_free_entry" ELSE "pool"
           /\ last_call' = [op |-> "free_entry", idx |-> idx, panic |-> r.panic,
                            before |-> ring_allocator,
                            follows_alloc |-> (/\ last_call.op = "alloc_entry"
                                               /\ last_call.ret = idx)]
    /\ UNCHANGED pool_frame

PoolNext == PoolAllocEntry \/ PoolFreeEntry

PoolSpec == PoolInit /\ [][PoolNext]_vars

\* --------------------------------------------- the allocator and its buffers
\* The pool is built without send buffers, as main builds it for TCP connect,
\* or with them, as the tests build it.
TestTxBufSize == 1024

BufInit ==
    /\ ring_size \in 1..MaxBufPoolSize
    /\ ring_batch_size = 1
    /\ total_ip_count = 0
    /\ probe = AllOps
    /\ pc = "pool"
    /\ done = FALSE
    /\ ip_iter = 0
    /\ \E tx_buf_size \in {max_tx_size, TestTxBufSize} :
          ring_allocator = RingAllocatorNew(ring_size, tx_buf_size)
    /\ squeue = <<>>
    /\ inflight = {}
    /\ cqueue = <<>>
    /\ chain_state = <<>>
    /\ wait_for = 0
    /\ set = {}
    /\ log = <<>>
    /\ progress = 0
    /\ open_fds = {}
    /\ pushed = <<>>
    /\ last_call = NoCall

\* A slot that owns a buffer: alloc_buf(direction, None), then alloc_entry of
\* an info naming the buffer handed out, the result unwrapped.
PoolAllocBufEntry ==
    /\ pc = "pool"
    /\ \E ip \in 1..MaxInfoIp, direction \in {"RX", "TX"} :
        LET b == alloc_buf(ring_allocator, direction)
            info == EntryInfo(ip, StepConnect, BufferInfo(b.idx, direction), FirstFd)
            r == alloc_entry(b.allocator, info)
        IN IF b.panic
           THEN /\ ring_allocator' = b.allocator
                /\ pc' = "panic_alloc_buf"
                /\ last_call' = [op |-> "alloc_buf", direction |-> direction,
                                 panic |-> TRUE, before |-> ring_allocator]
           ELSE /\ ring_allocator' = r.allocator
                /\ last_call' = [op |-> "alloc_entry", info |-> info, ret |-> r.idx,
                                 before |-> b.allocator]
                /\ \E debug_assertions \in (IF r.occupied THEN BOOLEAN ELSE {FALSE}) :
                     pc' = IF r.idx = NoneIdx THEN "panic_push"
                           ELSE IF debug_assertions THEN "panic_assert" ELSE "pool"
    /\ UNCHANGED pool_frame

BufNext == PoolAllocEntry \/ PoolAllocBufEntry \/ PoolFreeEntry

BufSpec == BufInit /\ [][BufNext]_vars

\* ------------------------------------------------------ the dispatcher alone
\* The results a completion carries: 0 or a negated errno
Results == {"OK", "ECONNREFUSED", "ETIME", "ECANCELED", "EINVAL"}

ScanInit ==
    /\ ring_size = 1
    /\ ring_batch_size = 1
    /\ total_ip_count = MaxInfoIp
    /\ probe = AllOps
    /\ pc = "scan"
    /\ done = FALSE
    /\ ip_iter = 0
    /\ ring_allocator = RingAllocatorNew(0, NoneIdx)
    /\ squeue = <<>>
    /\ inflight = {}
    /\ cqueue = <<>>
    /\ chain_state = <<>>
    /\ wait_for = 0
    /\ set = {}
    /\ log = [ip \in 1..total_ip_count |-> 0]
    /\ progress = 0
    /\ open_fds = {}
    /\ pushed = [ip \in 1..total_ip_count |-> 0]
    /\ last_call = NoCall

scan_frame == << param_vars, done, ip_iter, ring_allocator, squeue, kernel_vars,
                 wait_for, progress, pushed >>

\* socket()
ScanSocket ==
    /\ pc = "scan"
    /\ Cardinality(open_fds) < MaxScanFds
    /\ open_fds' = open_fds \cup {socket(open_fds)}
    /\ UNCHANGED << scan_frame, pc, set, log, last_call >>

\* process_completed_entry on a completion of any step and result, for any
\* address, seen before or not, and any descriptor handed out so far
ScanProcess ==
    /\ pc = "scan"
    /\ \E ip \in 1..total_ip_count, step \in {StepConnect, StepConnectTimeout, StepClose},
          result \in Results, fd \in FirstFd..(FirstFd + MaxScanFds - 1) :
        LET ce == Cqe(0, result)
            entry_info == EntryInfo(ip, step, NoBuf, fd)
            r == process_completed_entry(ce, entry_info, set, open_fds)
        IN /\ set' = r.set
           /\ log' = IF r.logged /\ ~r.panic THEN [log EXCEPT ![ip] = @ + 1] ELSE log
           /\ open_fds' = IF r.panic THEN open_fds ELSE r.open_fds
           /\ pc' = IF r.panic THEN "panic_dispatch" ELSE "scan"
           /\ last_call' = [op |-> "process_completed_entry", ce |-> ce,
                            entry_info |-> entry_info, ret |-> r.ret,
                            logged |-> r.logged, panic |-> r.panic, before |-> set]
    /\ UNCHANGED scan_frame

ScanNext == ScanSocket \/ ScanProcess

ScanSpec == ScanInit /\ [][ScanNext]_vars

\* ------------------------------------------------- the shared address
\* Rc::strong_count of the address object push_scan_ops made for address
\* ip: one handle in every EntryInfo stored for it (Rc::clone(&addr) in each
\* alloc_entry; free_entry's `entries[idx] = None` drops it) and one in the
\* set once inserted (set.insert(entry_info.ip.clone())).  The local `addr`
\* of push_scan_ops is dropped when the call returns.
strong_count(ip) ==
    Cardinality({i \in DOMAIN ring_allocator.entries :
                    /\ ring_allocator.entries[i].some
                    /\ ring_allocator.entries[i].ip = ip})
        + (IF ip \in set THEN 1 ELSE 0)

\* ------------------------------------------------------------------ claims
\* The user_data tags of the operations pushed, submitted or completed and
\* not yet drained
OutstandingTags ==
    {e.user_data : e \in Range(squeue)} \cup {e.user_data : e \in inflight}
        \cup {c.user_data : c \in Range(cqueue)}

OutstandingCount == Len(squeue) + Cardinality(inflight) + Len(cqueue)

AllocatedIdx(a) == {i \in DOMAIN a.entries : a.entries[i].some}

Occurrences(seq, x) == Cardinality({i \in DOMAIN seq : seq[i] = x})

\* C1: under a fair driver and a kernel that completes what it is given, the
\* drive loop eventually has pushed a chain for every address and has exited,
\* for every ring_size >= 1, batch size and IP sequence.
C1_ForwardProgress ==
    <>(pc = "exit" /\ \A ip \in 1..total_ip_count : pushed[ip] = 1)

\* C2: done is set only with the IP sequence exhausted and no slot allocated,
\* so the loop never exits (and never runs on with done set) while an
\* operation is pushed, in the kernel or completed and undrained; with slots
\* in flight the loop goes on with done unset.
C2_TerminateOnlyWhenDrained ==
    /\ done => /\ ip_iter = total_ip_count
               /\ allocated_entry_count(ring_allocator) = 0
               /\ OutstandingCount = 0
    /\ pc = "exit" => done
    /\ (pc \in {"submit", "wait"} /\ allocated_entry_count(ring_allocator) # 0) => ~done

C2_Witness ==
    /\ pc = "exit"
    /\ done
    /\ ip_iter >= 2
    /\ progress >= 2

\* C3: every address the sequence has yielded got exactly one push_scan_ops,
\* no address not yet yielded got one, and at loop exit the chains issued
\* are as many as the hosts.
C3_OnePushPerIp ==
    /\ \A ip \in 1..total_ip_count : pushed[ip] = (IF ip <= ip_iter THEN 1 ELSE 0)
    /\ Len(chain_state) = ip_iter
    /\ pc = "exit" => Len(chain_state) = total_ip_count

C3_Witness ==
    /\ pc = "exit"
    /\ total_ip_count >= 2
    /\ Len(chain_state) = total_ip_count

\* C4: every completion waiting to be drained carries the index of an
\* allocated slot, and the drain never finds get_entry returning none.
C4_CompletionTagAllocated ==
    /\ pc # "panic_get_entry"
    /\ \A i \in DOMAIN cqueue :
          LET g == get_entry(ring_allocator, cqueue[i].user_data)
          IN ~g.panic /\ g.entry.some

C4_Witness ==
    /\ Len(cqueue) >= 2
    /\ \E i, j \in DOMAIN cqueue :
          ring_allocator.entries[cqueue[i].user_data].ip
              # ring_allocator.entries[cqueue[j].user_data].ip
    /\ allocated_entry_count(ring_allocator) < ops_per_ip * Len(chain_state)

\* C5: the outstanding operations carry pairwise distinct tags, the slots
\* allocated are exactly the slots of the outstanding tags (none freed
\* before its completion is drained, none kept after), and no outstanding
\* tag is in the free list for alloc_entry to hand out.
C5_NoTagAliasing ==
    /\ Cardinality(OutstandingTags) = OutstandingCount
    /\ pc \in {"fill", "submit", "wait", "exit"} =>
          AllocatedIdx(ring_allocator) = OutstandingTags
    /\ \A t \in OutstandingTags : Occurrences(ring_allocator.free_entry_idx, t) = 0

C5_Witness ==
    /\ Len(chain_state) >= 2
    /\ progress >= 1
    /\ OutstandingCount >= 2
    /\ \E e \in inflight : chain_state[e.chain] = "pending"

\* C7: whenever the fill phase stands before a push with can_push holding,
\* push_scan_ops reserves ops_per_ip slots and queues ops_per_ip entries
\* without an unwrap or expect failing; no push has ever failed part-way.
C7_PushCompletesFully ==
    /\ pc # "panic_push"
    /\ (pc = "fill" /\ can_push(squeue, SqCapacity, ring_allocator)) =>
          LET r == push_scan_ops(socket(open_fds), ip_iter + 1, squeue, SqCapacity,
                                 ring_allocator, Len(chain_state) + 1)
          IN /\ ~r.panic
             /\ r.ret = ops_per_ip
             /\ Len(r.squeue) = Len(squeue) + ops_per_ip
             /\ Len(r.squeue) <= SqCapacity
             /\ allocated_entry_count(r.allocator)
                   = allocated_entry_count(ring_allocator) + ops_per_ip
    /\ pc \in {"fill", "submit", "wait", "exit"} =>
          allocated_entry_count(ring_allocator) = OutstandingCount

C7_Witness ==
    /\ pc = "fill"
    /\ ip_iter >= 1
    /\ Len(squeue) = ops_per_ip
    /\ inflight # {}

\* C8: when check_supported reports an opcode missing, startup aborts: no
\* socket is created and no operation is pushed or submitted.
C8_AbortsWhenUnsupported ==
    ~check_supported(probe) =>
        /\ pc = "start"
        /\ open_fds = {}
        /\ OutstandingCount = 0
        /\ Len(chain_state) = 0

\* C6: every pool index is either once in the free list and empty, or absent
\* from the free list and holding an entry; allocated_entry_count() is the
\* number of entries present and, with the free list, makes up the capacity.
C6_SlotPartition ==
    /\ \A i \in DOMAIN ring_allocator.entries :
          \/ /\ Occurrences(ring_allocator.free_entry_idx, i) = 1
             /\ ~ring_allocator.entries[i].some
          \/ /\ Occurrences(ring_allocator.free_entry_idx, i) = 0
             /\ ring_allocator.entries[i].some
    /\ Range(ring_allocator.free_entry_idx) \subseteq DOMAIN ring_allocator.entries
    /\ allocated_entry_count(ring_allocator) = Cardinality(AllocatedIdx(ring_allocator))
    /\ Cardinality(AllocatedIdx(ring_allocator)) + Len(ring_allocator.free_entry_idx)
          = Capacity(ring_allocator)

C6_Witness ==
    /\ last_call.op = "free_entry"
    /\ ~last_call.panic
    /\ Cardinality(AllocatedIdx(ring_allocator)) >= 1
    /\ Len(ring_allocator.free_entry_idx) >= 2
    /\ ring_allocator.free_entry_idx # RingAllocatorNew(ring_size, max_tx_size).free_entry_idx

\* C9: alloc_entry returned none exactly when the free list was empty, and
\* then left the pool as it was; otherwise the index it returned was free,
\* now holds the given info and is off the free list, and nothing else moved.
C9_AllocNoneIffEmpty ==
    last_call.op = "alloc_entry" =>
        LET b == last_call.before
            idx == last_call.ret
        IN /\ (idx = NoneIdx) <=> (b.free_entry_idx = <<>>)
           /\ idx = NoneIdx => ring_allocator = b
           /\ idx # NoneIdx =>
                 /\ Occurrences(b.free_entry_idx, idx) = 1
                 /\ ~b.entries[idx].some
                 /\ ring_allocator.entries[idx] = last_call.info
                 /\ Occurrences(ring_allocator.free_entry_idx, idx) = 0
                 /\ Len(ring_allocator.free_entry_idx) = Len(b.free_entry_idx) - 1
                 /\ \A i \in DOMAIN b.entries \ {idx} :
                       ring_allocator.entries[i] = b.entries[i]

C9_Witness ==
    /\ last_call.op = "alloc_entry"
    /\ last_call.ret = NoneIdx
    /\ Cardinality(AllocatedIdx(ring_allocator)) = ring_size
    /\ ring_size >= 2

\* C10: an alloc_entry that follows a free_entry returns the index just
\* freed; on a pool whose free list is still 0..k-1 in construction order (a
\* fresh pool after n-k allocations) alloc_entry returns k-1.
C10_Lifo ==
    /\ [](last_call.op = "alloc_entry" =>
             LET k == Len(last_call.before.free_entry_idx)
             IN (k >= 1 /\ last_call.before.free_entry_idx = [i \in 1..k |-> i - 1])
                   => last_call.ret = k - 1)
    /\ [][(/\ last_call.op = "free_entry"
           /\ ~last_call.panic
           /\ last_call'.op = "alloc_entry")
             => last_call'.ret = last_call.idx]_vars

C10_Witness ==
    /\ last_call.op = "alloc_entry"
    /\ last_call.ret # NoneIdx
    /\ Len(last_call.before.free_entry_idx) >= 2
    /\ last_call.ret # Len(last_call.before.free_entry_idx) - 1
    /\ last_call.ret # last_call.before.free_entry_idx[1]

\* C11: a free_entry of the index an alloc_entry has just returned does not
\* fail, leaves the free list exactly as it was before the alloc_entry (so
\* its length too), and get_entry of that index then returns none.
C11_FreeAfterAllocRestores ==
    [][(/\ last_call.op = "alloc_entry"
        /\ last_call.ret # NoneIdx
        /\ last_call'.op = "free_entry"
        /\ last_call'.idx = last_call.ret)
          => /\ ~last_call'.panic
             /\ ring_allocator'.free_entry_idx = last_call.before.free_entry_idx
             /\ Len(ring_allocator'.free_entry_idx) = Len(last_call.before.free_entry_idx)
             /\ ~get_entry(ring_allocator', last_call.ret).panic
             /\ get_entry(ring_allocator', last_call.ret).entry = NoEntry]_vars

C11_Witness ==
    /\ last_call.op = "free_entry"
    /\ last_call.follows_alloc
    /\ ~last_call.panic
    /\ Len(last_call.before.free_entry_idx) >= 1
    /\ last_call.before.free_entry_idx[1] # 0
    /\ last_call.before.entries[last_call.idx].ip = MaxInfoIp
    /\ ring_allocator.free_entry_idx[Len(ring_allocator.free_entry_idx)] = last_call.idx

\* C12: get_entry of the index alloc_entry returned gives the info passed to
\* that call, and a call of alloc_entry or free_entry leaves get_entry of
\* every index that is allocated before and after it unchanged.
C12_GetEntryFrame ==
    /\ [](last_call.op = "alloc_entry" /\ last_call.ret # NoneIdx
             => /\ ~get_entry(ring_allocator, last_call.ret).panic
                /\ get_entry(ring_allocator, last_call.ret).entry = last_call.info)
    /\ [][\A i \in AllocatedIdx(ring_allocator) :
             i \in AllocatedIdx(ring_allocator')
                => get_entry(ring_allocator', i) = get_entry(ring_allocator, i)]_vars

C12_Witness ==
    /\ last_call.op = "alloc_entry"
    /\ last_call.ret # NoneIdx
    /\ last_call.before.free_entry_idx # [i \in 1..Len(last_call.before.free_entry_idx) |-> i - 1]
    /\ \E i \in AllocatedIdx(last_call.before) :
          /\ i > last_call.ret
          /\ ring_allocator.entries[i].ip # last_call.info.ip

\* C20: free_entry fails exactly on an index that holds no entry (never
\* allocated, already freed, or out of range) and then changes nothing; no
\* index is ever twice in the free list.
C20_FreeUnallocatedFails ==
    /\ last_call.op = "free_entry" =>
          /\ last_call.panic <=> last_call.idx \notin AllocatedIdx(last_call.before)
          /\ last_call.panic => ring_allocator = last_call.before
          /\ last_call.panic => pc = "panic_free_entry"
    /\ \A i \in DOMAIN ring_allocator.entries :
          Occurrences(ring_allocator.free_entry_idx, i) <= 1

C20_Witness ==
    /\ last_call.op = "free_entry"
    /\ last_call.panic
    /\ last_call.idx \in DOMAIN ring_allocator.entries
    /\ Len(ring_allocator.free_entry_idx) >= 2
    /\ ring_allocator.free_entry_idx[Len(ring_allocator.free_entry_idx)] = last_call.idx
    /\ ring_allocator.free_entry_idx
          # RingAllocatorNew(ring_size, max_tx_size).free_entry_idx

\* The allocated slots that own a buffer
BufOwners(a) == {i \in AllocatedIdx(a) : a.entries[i].buf.some}

\* C18: no buffer index is owned by two allocated slots, and no buffer index
\* owned by an allocated slot is in a free list; a free_entry of a slot that
\* owns a buffer has put the buffer's index once at the end of the free list
\* of its direction, left the other direction's list alone, and put the slot
\* index at the end of the slot free list.
C18_BufferOwnership ==
    /\ \A i, j \in BufOwners(ring_allocator) :
          i # j => ring_allocator.entries[i].buf.idx # ring_allocator.entries[j].buf.idx
    /\ \A i \in BufOwners(ring_allocator) :
          /\ Occurrences(ring_allocator.free_rx_buf_idx, ring_allocator.entries[i].buf.idx) = 0
          /\ Occurrences(ring_allocator.free_tx_buf_idx, ring_allocator.entries[i].buf.idx) = 0
    /\ (/\ last_call.op = "free_entry"
        /\ ~last_call.panic
        /\ last_call.before.entries[last_call.idx].buf.some) =>
          LET b == last_call.before
              buf == b.entries[last_call.idx].buf
          IN /\ buf.direction = "RX" =>
                   /\ ring_allocator.free_rx_buf_idx = Append(b.free_rx_buf_idx, buf.idx)
                   /\ ring_allocator.free_tx_buf_idx = b.free_tx_buf_idx
                   /\ Occurrences(ring_allocator.free_rx_buf_idx, buf.idx) = 1
             /\ buf.direction = "TX" =>
                   /\ ring_allocator.free_tx_buf_idx = Append(b.free_tx_buf_idx, buf.idx)
                   /\ ring_allocator.free_rx_buf_idx = b.free_rx_buf_idx
                   /\ Occurrences(ring_allocator.free_tx_buf_idx, buf.idx) = 1
             /\ ring_allocator.free_entry_idx = Append(b.free_entry_idx, last_call.idx)

C18_Witness ==
    /\ last_call.op = "free_entry"
    /\ ~last_call.panic
    /\ last_call.before.entries[last_call.idx].buf.some
    /\ last_call.before.entries[last_call.idx].buf.direction = "TX"
    /\ \E i \in BufOwners(ring_allocator) : ring_allocator.entries[i].buf.direction = "RX"
    /\ Len(ring_allocator.free_tx_buf_idx) = 2

\* C19: the capability declares no send buffers (max_tx_size is None), so the
\* pool built at startup holds receive buffers only and its send free list
\* holds no index.
C19_NoSendBuffers ==
    (pc # "start" /\ max_tx_size = NoneIdx) =>
        /\ ring_allocator.tx_buf_size = NoneIdx
        /\ ring_allocator.buffers = Len(ring_allocator.free_rx_buf_idx)
        /\ ring_allocator.free_tx_buf_idx = <<>>

\* The chains whose Close completion has been processed: chain c scans
\* address c, and its Close slot is held until that completion is drained.
ChainsFinalised ==
    {c \in 1..Len(chain_state) :
        ~\E i \in AllocatedIdx(ring_allocator) :
            /\ ring_allocator.entries[i].ip = c
            /\ ring_allocator.entries[i].step = StepClose}

\* C13: the dispatcher returns true for a completion exactly when its slot's
\* step is Close, so the progress position is the number of chains whose
\* Close completion has been processed, and at loop exit the number of
\* chains issued.
C13_ProgressOncePerChain ==
    /\ \A i \in DOMAIN cqueue :
          LET entry_info == get_entry(ring_allocator, cqueue[i].user_data).entry
          IN entry_info.some =>
                (process_completed_entry(cqueue[i], entry_info, set, open_fds).ret
                    <=> entry_info.step = StepClose)
    /\ pc \in {"fill", "submit", "wait", "exit"} =>
          progress = Cardinality(ChainsFinalised)
    /\ pc = "exit" => progress = Len(chain_state)

C13_Witness ==
    /\ pc = "exit"
    /\ progress = 2
    /\ Cardinality(set) = 1
    /\ open_fds = {}

\* The Close slots of the chains in flight, and those among them whose
\* descriptor the ring's Close operation has closed (its completion, with
\* result 0, waits in the queue)
CloseSlots ==
    {i \in AllocatedIdx(ring_allocator) : ring_allocator.entries[i].step = StepClose}

ClosedByRing ==
    {i \in CloseSlots : \E k \in DOMAIN cqueue :
        cqueue[k].user_data = i /\ cqueue[k].result = "OK"}

\* C14: the open sockets are exactly the sockets of the chains in flight that
\* the ring's Close has not closed: a chain's socket is closed by the time
\* its Close completion has been processed, by the ring or by the
\* dispatcher, never twice, and two chains never own the same open
\* descriptor.
C14_FdClosedExactlyOnce ==
    /\ pc # "panic_dispatch"
    /\ pc \in {"fill", "submit", "wait", "exit"} =>
          /\ open_fds = {ring_allocator.entries[i].fd : i \in CloseSlots \ ClosedByRing}
          /\ \A i, j \in CloseSlots \ ClosedByRing :
                i # j => ring_allocator.entries[i].fd # ring_allocator.entries[j].fd
    /\ pc = "exit" => open_fds = {}

\* C15: the dispatcher logs a hit exactly when the completion is a Connect's
\* with result 0 and the address is not in the hit set, and the address is
\* in the set afterwards; in every other case nothing is logged and the set
\* is unchanged; no address is ever logged twice, and an address is in the
\* set exactly when it has been logged.
C15_HitLoggedOnce ==
    /\ last_call.op = "process_completed_entry" =>
          LET hit == /\ last_call.entry_info.step = StepConnect
                     /\ last_call.ce.result = "OK"
                     /\ last_call.entry_info.ip \notin last_call.before
          IN /\ last_call.logged <=> hit
             /\ hit => set = last_call.before \cup {last_call.entry_info.ip}
             /\ ~hit => set = last_call.before
             /\ last_call.entry_info.step # StepConnect => ~last_call.logged
    /\ \A ip \in DOMAIN log : log[ip] <= 1 /\ (log[ip] = 1 <=> ip \in set)

C15_Witness ==
    /\ last_call.op = "process_completed_entry"
    /\ last_call.entry_info.step = StepConnect
    /\ last_call.ce.result = "OK"
    /\ last_call.entry_info.ip \in last_call.before
    /\ ~last_call.logged
    /\ Cardinality(set) = MaxInfoIp
    /\ log[last_call.entry_info.ip] = 1

\* The chains pushed whose Close completion has not been processed
ChainsInFlight == Len(chain_state) - Cardinality(ChainsFinalised)

\* C17: the allocated slots never exceed ring_size * ops_per_ip, the chains
\* in flight never exceed ring_size, and with fewer than ops_per_ip slots
\* free the fill phase cannot pull an IP.
C17_BoundedInFlight ==
    /\ allocated_entry_count(ring_allocator) <= ring_size * ops_per_ip
    /\ pc \in {"fill", "submit", "wait", "exit"} => ChainsInFlight <= ring_size
    /\ (pc = "fill" /\ ~has_free_entry_count(ring_allocator, ops_per_ip)) =>
          ~ENABLED FillPush

\* The slots held for chain c (chain c scans address c)
ChainSlots(c) ==
    {i \in AllocatedIdx(ring_allocator) : ring_allocator.entries[i].ip = c}

\* C16: no completion result ends the scan with a panic, and every chain
\* pushed is eventually drained to the end: its ops_per_ip slots are freed
\* and its Close completion has counted it in the progress position.
C16_ChainDrainsThroughClose ==
    /\ [](pc \in {"start", "fill", "submit", "wait", "exit"})
    /\ \A c \in 1..MaxIps :
          (Len(chain_state) >= c /\ ChainSlots(c) # {})
              ~> (ChainSlots(c) = {} /\ c \in ChainsFinalised
                    /\ progress = Cardinality(ChainsFinalised))

C16_Witness ==
    /\ Len(chain_state) = 2
    /\ ChainSlots(1) = {}
    /\ 1 \in ChainsFinalised
    /\ Cardinality(ChainSlots(2)) = ops_per_ip
    /\ set = {}
    /\ progress = 1

\* The step a submission entry's slot must carry
StepOf(opcode) ==
    IF opcode = "Connect" THEN StepConnect
    ELSE IF opcode = "LinkTimeout" THEN StepConnectTimeout
    ELSE StepClose

\* The operations of chain c that are pushed or in the kernel
ChainOps(c) == {e \in Range(squeue) \cup inflight : e.chain = c}

\* The completions of chain c waiting to be drained
ChainCompletions(c) ==
    {i \in DOMAIN cqueue :
        LET g == get_entry(ring_allocator, cqueue[i].user_data)
        IN ~g.panic /\ g.entry.some /\ g.entry.ip = c}

C22_AddressHeldBySlotsOnly ==
    \A c \in 1..Len(chain_state) :
        /\ strong_count(c) = Cardinality(ChainSlots(c))
        /\ ChainSlots(c) = {} => strong_count(c) = 0

\* C22 amended: the address object is held by the chain's allocated slots
\* and, exactly when its connect was logged as a hit, by the hit set as
\* well; with no hit it is dropped when the chain's last slot is freed, and
\* after a hit the set keeps it for the rest of the scan.
C22_AddressHeldBySlotsAndHits ==
    /\ \A c \in 1..Len(chain_state) :
          /\ strong_count(c) = Cardinality(ChainSlots(c)) + log[c]
          /\ log[c] \in {0, 1}
          /\ (log[c] = 0 /\ ChainSlots(c) = {}) => strong_count(c) = 0
          /\ log[c] = 1 => strong_count(c) >= 1
    /\ \A c \in (Len(chain_state) + 1)..total_ip_count : strong_count(c) = 0

\* The scan has ended with one hit and one miss: the hit's address is still
\* held once, by the set, and the other address is dropped.
C22_Witness ==
    /\ pc = "exit"
    /\ Len(chain_state) = 2
    /\ allocated_entry_count(ring_allocator) = 0
    /\ log[1] = 1 /\ strong_count(1) = 1
    /\ log[2] = 0 /\ strong_count(2) = 0

\* C23: the target N = min(batch_size, allocated - undrained completions)
\* handed to submit_and_wait is never more than the operations still to
\* complete, so while the driver waits either N completions are there (the
\* condition on which the wait returns), or the kernel still holds an
\* operation it can complete; with the IP sequence exhausted and nothing
\* allocated N is 0.
C23_WaitCanBeSatisfied ==
    /\ pc = "submit" =>
          LET N == Min(ring_batch_size,
                       allocated_entry_count(ring_allocator) - Len(cqueue))
          IN /\ N >= 0
             /\ N <= Len(squeue) + Cardinality(inflight)
             /\ (ip_iter = total_ip_count /\ allocated_entry_count(ring_allocator) = 0)
                   => N = 0
    /\ pc = "wait" =>
          /\ wait_for \in 0..ring_batch_size
          /\ squeue = <<>>
          /\ wait_for <= Len(cqueue) + Cardinality(inflight)
          /\ Len(cqueue) < wait_for => (inflight # {} /\ ENABLED Kernel)
          /\ done => wait_for = 0

\* The sequence is exhausted, one operation of the last chain is still in
\* the kernel and the driver waits for it alone, below the batch size.
C23_Witness ==
    /\ pc = "wait"
    /\ ip_iter = total_ip_count
    /\ total_ip_count >= 1
    /\ ring_batch_size = 2
    /\ wait_for = 1
    /\ cqueue = <<>>
    /\ Cardinality(inflight) = 1

\* C24: the completions waiting in the queue are never more than the slots
\* allocated, so allocated_entry_count() - completed_count does not wrap or
\* panic: also in the iteration that sets done, and with completions posted
\* since the last drain.
C24_NoUnderflow ==
    /\ pc # "panic_overflow"
    /\ pc \in {"start", "fill", "submit", "wait", "exit"} =>
          Len(cqueue) <= allocated_entry_count(ring_allocator)
    /\ (pc = "submit" /\ done) =>
          (cqueue = <<>> /\ allocated_entry_count(ring_allocator) = 0)

\* The subtraction is about to be evaluated with completions posted since
\* the last drain and further operations still in the kernel.
C24_Witness ==
    /\ pc = "submit"
    /\ progress >= 1
    /\ Len(cqueue) >= 1
    /\ allocated_entry_count(ring_allocator) > Len(cqueue)
    /\ allocated_entry_count(ring_allocator) < ops_per_ip * Len(chain_state)

\* The buffers the pool holds for a direction: ring_size receive buffers
\* and, when a send size was given, ring_size send buffers
NumBufs(a, direction) ==
    IF direction = "RX" THEN Min(a.buffers, Capacity(a)) ELSE a.buffers - Capacity(a)

FreeBufList(a, direction) ==
    IF direction = "RX" THEN a.free_rx_buf_idx ELSE a.free_tx_buf_idx

\* The buffers of a direction handed out and not given back
AllocatedBufs(a, direction) == NumBufs(a, direction) - Len(FreeBufList(a, direction))

====
